---- MODULE Spec2Model ----
(***************************************************************************)
(* Model of the stock watcher repository:                                  *)
(*   restock_watch.py      single-product watcher (badge regex, state file,*)
(*                         transition detector, notifier)                  *)
(*   restock_monitor.py    history logger (variant parser, CSV append,     *)
(*                         daily report, notifier)                         *)
(*   plot_stock_history.py chart renderer (windowing to the last N runs)   *)
(*                                                                         *)
(* Five specifications share the variables below:                          *)
(*   SpecWatch    runs of restock_watch.main                               *)
(*   SpecMonitor  runs of restock_monitor.main                             *)
(*   SpecHistory  arbitrary sequences of save_history calls                *)
(*   SpecFilter   filter_last_runs applied to bounded tables               *)
(*   SpecBadge    is_sold_out applied to bounded pages                     *)
(***************************************************************************)
EXTENDS Integers, Sequences, FiniteSets, TLC

\* ------------------------------------------------------------------------
\* Bounds
\* ------------------------------------------------------------------------
MaxWatchRuns == 3
MaxWatchClock == 2
MaxClasses == 2
MaxMonClock == 2
TicksPerSec == 2
MaxCalls == 3
MaxRows == 4
MaxN == 3

\* ------------------------------------------------------------------------
\* Pages as text.  A page body is a sequence of atoms, each atom a fixed
\* piece of text; the regular expression is run over the atoms.
\* ------------------------------------------------------------------------
WeakSignals == {"Sold Out", "Add to Cart", "Purchase"}

ClassNames == {"product-mark", "sold-out", "badge", "my-product-mark"}

Tags == {"span", "div"}

Quotes == {"dq", "sq"}

\* str.lower() on atoms (re.IGNORECASE compares case-insensitively)
Lower(a) ==
  CASE a = "<SPAN" -> "<span"
    [] a = "<DIV" -> "<div"
    [] a = "CLASS=dq" -> "class=dq"
    [] a = "CLASS=sq" -> "class=sq"
    [] a = "PRODUCT-MARK" -> "product-mark"
    [] a = "SOLD-OUT" -> "sold-out"
    [] a = "BADGE" -> "badge"
    [] a = "MY" -> "my"
    [] a = "Mild" -> "mild"
    [] a = "MILD" -> "mild"
    [] a = "Medium" -> "medium"
    [] a = "Spicy" -> "spicy"
    [] a = "SPICY" -> "spicy"
    [] OTHER -> a

Upper(a) ==
  CASE a = "<span" -> "<SPAN"
    [] a = "<div" -> "<DIV"
    [] a = "class=dq" -> "CLASS=dq"
    [] a = "class=sq" -> "CLASS=sq"
    [] a = "product-mark" -> "PRODUCT-MARK"
    [] a = "sold-out" -> "SOLD-OUT"
    [] a = "badge" -> "BADGE"
    [] a = "my" -> "MY"
    [] OTHER -> a

\* the atoms that contain the character "
HasDQuote(a) == Lower(a) \in {"dq", "class=dq"}

\* the atoms that contain the character >
HasGt(a) == a = ">"

\* (the atom "id=" starts with a word character and ends with =)
\* the atoms whose first / last character is a word character (\w)
StartsWithWord(a) ==
  Lower(a) \in {"product-mark", "sold-out", "badge", "my", "class=dq",
                "class=sq", "id=", "Sold Out", "Add to Cart", "Purchase"}

EndsWithWord(a) ==
  Lower(a) \in {"<span", "<div", "product-mark", "sold-out", "badge", "my",
                "Sold Out", "Add to Cart", "Purchase"}

\* \b before position p, where the atom at p starts with a word character
BoundaryBefore(s, p) == p = 1 \/ ~EndsWithWord(s[p - 1])

\* \b after position p, where the atom at p ends with a word character
BoundaryAfter(s, p) == p = Len(s) \/ ~StartsWithWord(s[p + 1])

\* the text of one class name
ClassAtoms(c) ==
  IF c = "my-product-mark" THEN <<"my", "-", "product-mark">> ELSE <<c>>

RECURSIVE JoinClasses(_)
JoinClasses(cs) ==
  IF cs = <<>> THEN <<>>
  ELSE IF Len(cs) = 1 THEN ClassAtoms(cs[1])
  ELSE ClassAtoms(cs[1]) \o <<"sp">> \o JoinClasses(Tail(cs))

MapUpper(s) == [i \in DOMAIN s |-> Upper(s[i])]

TagAtom(tag) == IF tag = "span" THEN "<span" ELSE "<div"

ClassAttrAtom(quote) == IF quote = "dq" THEN "class=dq" ELSE "class=sq"

\* the start tag of an element: <tag [id="badge"] class="c1 c2 ...">
ElementText(e) ==
  LET body == <<TagAtom(e.tag), "sp">>
              \o (IF e.id THEN <<"id=", "dq", "badge", "dq", "sp">> ELSE <<>>)
              \o <<ClassAttrAtom(e.quote)>>
              \o JoinClasses(e.classes)
              \o <<e.quote, ">">>
  IN IF e.upper THEN MapUpper(body) ELSE body

RECURSIVE ElementsText(_)
ElementsText(es) ==
  IF es = <<>> THEN <<>> ELSE ElementText(Head(es)) \o ElementsText(Tail(es))

\* an unrelated element in front of the rest: <span class="badge">
LeadText == <<"<span", "sp", "class=dq", "badge", "dq", ">">>

SignalsText(sigs) ==
  (IF "Sold Out" \in sigs THEN <<"Sold Out", "sp">> ELSE <<>>)
  \o (IF "Add to Cart" \in sigs THEN <<"Add to Cart", "sp">> ELSE <<>>)
  \o (IF "Purchase" \in sigs THEN <<"Purchase", "sp">> ELSE <<>>)

\* the body of a page: its visible texts, then its elements
PageText(p) ==
  SignalsText(p.signals)
  \o (IF p.lead THEN LeadText ELSE <<>>)
  \o ElementsText(p.elems)

\* restock_watch.RE_SOLD_OUT_BADGE.search(html):
\*   <span[^>]*class="[^"]*\bproduct-mark\b[^"]*\bsold-out\b   (IGNORECASE)
RE_SOLD_OUT_BADGE(s) ==
  \E i \in DOMAIN s :
    /\ Lower(s[i]) = "<span"
    /\ \E j \in DOMAIN s :
         /\ j > i
         /\ \A k \in (i + 1)..(j - 1) : ~HasGt(s[k])
         /\ Lower(s[j]) = "class=dq"
         /\ \E p \in DOMAIN s :
              /\ p > j
              /\ \A k \in (j + 1)..(p - 1) : ~HasDQuote(s[k])
              /\ Lower(s[p]) = "product-mark"
              /\ BoundaryBefore(s, p)
              /\ BoundaryAfter(s, p)
              /\ \E q \in DOMAIN s :
                   /\ q > p
                   /\ \A k \in (p + 1)..(q - 1) : ~HasDQuote(s[k])
                   /\ Lower(s[q]) = "sold-out"
                   /\ BoundaryBefore(s, q)
                   /\ BoundaryAfter(s, q)

\* the first heuristic of the watcher: the text "Sold Out" anywhere
is_sold_out_naive(html) ==
  \E i \in DOMAIN html : html[i] = "Sold Out"

is_sold_out(html) == RE_SOLD_OUT_BADGE(html)

\* ------------------------------------------------------------------------
\* State
\* ------------------------------------------------------------------------
VARIABLES
  \* restock_watch.py
  state_file,   \* restock_state.json: [exists, sold_out, ts]
  w_pc,         \* position of main: "idle", "fetch", "decide", "save"
  w_prev,       \* main's prev: "null", "true" or "false"
  w_now,        \* main's now
  w_fetched,    \* this run obtained the page
  w_calls,      \* the notify_wechat calls of this run, in order
  w_log,        \* every notify_wechat call so far: [version, title]
  w_version,    \* number of times the state file was written
  w_exit,       \* how the last run ended
  w_runs,       \* runs started
  w_clock,      \* time.time()
  \* is_sold_out on its own
  page,         \* the page scanned
  b_result,     \* is_sold_out(page)
  b_done,       \* the scan was made
  \* restock_monitor.py
  history,      \* stock_history.csv: [exists, lines]
  m_pc,         \* position of main: "idle", "product", "rows", "done"
  send_notify,  \* "--notify" in sys.argv
  all_stock,    \* main's all_stock: slug -> variants
  m_idx,        \* the product the loop is at (index into PRODUCTS)
  m_spice,      \* the spice level the inner loop is at
  m_variants,   \* main's variants for the product at m_idx
  m_clock,      \* datetime.now(), in ticks
  m_written,    \* the save_history calls made so far: [args, clock]
  m_start,      \* number of lines of the file when the run started
  m_status,     \* per slug: "pending", "ok" or "failed" in this run
  m_notes,      \* the notify_wechat calls of this run
  \* filter_last_runs on its own
  df,           \* the table: [has_unix_ts, rows]
  f_runs,       \* the runs argument
  f_result,     \* the rows returned
  f_done        \* the call was made

watch_vars == <<state_file, w_pc, w_prev, w_now, w_fetched, w_calls, w_log,
                w_version, w_exit, w_runs, w_clock>>

badge_vars == <<page, b_result, b_done>>

mon_vars == <<history, m_pc, send_notify, all_stock, m_idx, m_spice,
              m_variants, m_clock, m_written, m_start, m_status, m_notes>>

filter_vars == <<df, f_runs, f_result, f_done>>

vars == <<watch_vars, badge_vars, mon_vars, filter_vars>>

\* ------------------------------------------------------------------------
\* restock_watch.py
\* ------------------------------------------------------------------------
\* json.dumps of a bool
JsonBool(b) == IF b THEN "true" ELSE "false"

NoStateFile == [exists |-> FALSE, sold_out |-> "null", ts |-> 0]

load_prev(file) == IF file.exists THEN file.sold_out ELSE "null"

save_state(sold_out, clock) ==
  [exists |-> TRUE, sold_out |-> JsonBool(sold_out), ts |-> clock]

\* the pages the shop serves
NoElement == <<>>

BadgeElement ==
  [tag |-> "span", quote |-> "dq", upper |-> FALSE, id |-> FALSE,
   classes |-> <<"product-mark", "sold-out">>]

WatchPages ==
  { [signals |-> {"Add to Cart", "Purchase"}, lead |-> FALSE, elems |-> NoElement],
    [signals |-> {"Sold Out", "Add to Cart"}, lead |-> TRUE, elems |-> NoElement],
    [signals |-> {"Sold Out"}, lead |-> FALSE, elems |-> <<BadgeElement>>],
    [signals |-> {"Add to Cart"}, lead |-> TRUE, elems |-> <<BadgeElement>>] }

\* what the push gateway can do with a POST
Deliveries == {"ok", "no_key", "network_error", "http_error", "body_failure"}

\* restock_watch.notify_wechat raises on a missing key (os.environ[...]), on
\* a network error (requests.post) and on a non-2xx status
\* (raise_for_status); it does not read the response body
watch_notify_raises(delivery) ==
  delivery \in {"no_key", "network_error", "http_error"}

\* the sold-out test without its look at prev
SoldOutTransition_any(prev, now) == now = TRUE

SoldOutTransition(prev, now) == prev = "false" /\ now = TRUE

RestockTransition(prev, now) == prev = "true" /\ now = FALSE

\* the notify_wechat calls main wants to make, in order
WantedCalls(prev, now) ==
  (IF SoldOutTransition(prev, now) THEN <<"now sold out">> ELSE <<>>)
  \o (IF RestockTransition(prev, now) THEN <<"restocked">> ELSE <<>>)

WatchStart ==
  /\ state_file = NoStateFile
  /\ w_pc = "idle"
  /\ w_prev = "null"
  /\ w_now = FALSE
  /\ w_fetched = FALSE
  /\ w_calls = <<>>
  /\ w_log = <<>>
  /\ w_version = 0
  /\ w_exit = "none"
  /\ w_runs = 0
  /\ w_clock = 0

not_watch == <<badge_vars, mon_vars, filter_vars>>

\* main, line 41: prev = load_prev()["sold_out"]
WatchLoadPrev ==
  /\ w_pc = "idle"
  /\ w_runs < MaxWatchRuns
  /\ w_runs' = w_runs + 1
  /\ w_prev' = load_prev(state_file)
  /\ w_pc' = "fetch"
  /\ w_fetched' = FALSE
  /\ w_calls' = <<>>
  /\ w_exit' = "none"
  /\ UNCHANGED <<state_file, w_now, w_log, w_version, w_clock>>
  /\ UNCHANGED not_watch

\* main, lines 43-44: the page is obtained and scanned
WatchFetchOk ==
  /\ w_pc = "fetch"
  /\ \E pg \in WatchPages : w_now' = is_sold_out(PageText(pg))
  /\ w_fetched' = TRUE
  /\ w_pc' = "decide"
  /\ UNCHANGED <<state_file, w_prev, w_calls, w_log, w_version, w_exit,
                 w_runs, w_clock>>
  /\ UNCHANGED not_watch

\* main, line 43: fetch_html raises and the run ends
WatchFetchFail ==
  /\ w_pc = "fetch"
  /\ w_pc' = "idle"
  /\ w_exit' = "fetch_error"
  /\ UNCHANGED <<state_file, w_prev, w_now, w_fetched, w_calls, w_log,
                 w_version, w_runs, w_clock>>
  /\ UNCHANGED not_watch

\* main, lines 55-57: first run, record only
WatchFirstRun ==
  /\ w_pc = "decide"
  /\ w_prev = "null"
  /\ state_file' = save_state(w_now, w_clock)
  /\ w_version' = w_version + 1
  /\ w_pc' = "idle"
  /\ w_exit' = "ok"
  /\ UNCHANGED <<w_prev, w_now, w_fetched, w_calls, w_log, w_runs, w_clock>>
  /\ UNCHANGED not_watch

\* main, lines 60-71: the two transition tests and their notify_wechat
\* calls; a call that raises ends the run before save_state
WatchDetect ==
  /\ w_pc = "decide"
  /\ w_prev # "null"
  /\ \E delivery \in Deliveries :
       LET wanted == WantedCalls(w_prev, w_now)
           raised == wanted # <<>> /\ watch_notify_raises(delivery)
           made == IF raised THEN <<Head(wanted)>> ELSE wanted
       IN /\ w_calls' = made
          /\ w_log' = w_log \o [i \in DOMAIN made |->
                                  [version |-> w_version, title |-> made[i]]]
          /\ IF raised
             THEN w_pc' = "idle" /\ w_exit' = "notify_error"
             ELSE w_pc' = "save" /\ w_exit' = w_exit
  /\ UNCHANGED <<state_file, w_prev, w_now, w_fetched, w_version, w_runs,
                 w_clock>>
  /\ UNCHANGED not_watch

\* main, line 73: save_state(now)
WatchSave ==
  /\ w_pc = "save"
  /\ state_file' = save_state(w_now, w_clock)
  /\ w_version' = w_version + 1
  /\ w_pc' = "idle"
  /\ w_exit' = "ok"
  /\ UNCHANGED <<w_prev, w_now, w_fetched, w_calls, w_log, w_runs, w_clock>>
  /\ UNCHANGED not_watch

\* time passes
WatchTick ==
  /\ w_clock < MaxWatchClock
  /\ w_clock' = w_clock + 1
  /\ UNCHANGED <<state_file, w_pc, w_prev, w_now, w_fetched, w_calls, w_log,
                 w_version, w_exit, w_runs>>
  /\ UNCHANGED not_watch

\* ------------------------------------------------------------------------
\* is_sold_out on its own
\* ------------------------------------------------------------------------
\* sequences over S of length at most n
RECURSIVE SeqsUpTo(_, _)
SeqsUpTo(S, n) ==
  IF n = 0 THEN {<<>>}
  ELSE LET shorter == SeqsUpTo(S, n - 1)
       IN shorter \cup {Append(q, x) : q \in shorter, x \in S}

Elements ==
  [tag : Tags, quote : Quotes, upper : BOOLEAN, id : BOOLEAN,
   classes : SeqsUpTo(ClassNames, MaxClasses)]

Pages ==
  [signals : SUBSET WeakSignals, lead : BOOLEAN,
   elems : {NoElement} \cup {<<e>> : e \in Elements}]

BadgeIdle ==
  /\ page = [signals |-> {}, lead |-> FALSE, elems |-> NoElement]
  /\ b_result = FALSE
  /\ b_done = FALSE

\* now = is_sold_out(html)
BadgeScan ==
  /\ ~b_done
  /\ b_result' = is_sold_out(PageText(page))
  /\ b_done' = TRUE
  /\ UNCHANGED page
  /\ UNCHANGED <<watch_vars, mon_vars, filter_vars>>

\* ------------------------------------------------------------------------
\* restock_monitor.py
\* ------------------------------------------------------------------------
PRODUCTS ==
  << [slug |-> "crispy-savory", name |-> "Medium Crispy Savory",
      url |-> "https://www.psychkosjerky.com/shop/p/crispy-savory"],
     [slug |-> "crispy-lean", name |-> "Extra Crispy Lean",
      url |-> "https://www.psychkosjerky.com/shop/p/crispy-lean"] >>

LOW_STOCK_THRESHOLD == 5

\* the list ["mild", "medium", "spicy"] of main and build_daily_report
Spices == <<"mild", "medium", "spicy">>

\* a Python dict is a function; {} is the function with no key
EmptyDict == [k \in {} |-> 0]

\* d.get(k, default)
Get(d, k, default) == IF k \in DOMAIN d THEN d[k] ELSE default

\* d[k] = v
DictSet(d, k, v) ==
  [x \in (DOMAIN d) \cup {k} |-> IF x = k THEN v ELSE d[x]]

\* str() of a bool and of an int, as csv.writer writes them
PyStr(b) == IF b THEN "True" ELSE "False"

IntStr(n) == ToString(n)

\* datetime.isoformat() of the instant at tick t: every tick is a
\* different text
IsoFormat(t) == "T" \o ToString(t)

\* int(datetime.timestamp()): whole seconds
UnixTs(t) == t \div TicksPerSec

\* the pages the shop serves: the SQUARESPACE_CONTEXT assignment is absent,
\* is not JSON, or holds product.variants
MonitorPages ==
  { [context |-> "none", variants |-> <<>>],
    [context |-> "malformed", variants |-> <<>>],
    [context |-> "ok",
     variants |-> << [spice |-> "Mild",
                      stock |-> [quantity |-> 7, unlimited |-> FALSE]],
                     [spice |-> "Medium",
                      stock |-> [quantity |-> 3, unlimited |-> FALSE]],
                     [spice |-> "Spicy",
                      stock |-> [quantity |-> 0, unlimited |-> FALSE]] >>],
    [context |-> "ok",
     variants |-> << [spice |-> "MILD",
                      stock |-> [quantity |-> 0, unlimited |-> TRUE]],
                     [spice |-> "",
                      stock |-> [quantity |-> 7, unlimited |-> FALSE]],
                     [spice |-> "SPICY",
                      stock |-> [quantity |-> 7]] >>] }

\* json.loads(m.group(1)) raises on text that is not JSON
parse_raises(pg) == pg.context = "malformed"

RECURSIVE collect_variants(_, _)
collect_variants(variants, result) ==
  IF variants = <<>> THEN result
  ELSE LET v == Head(variants)
           spice == Lower(v.spice)
           next == IF spice = "" THEN result
                   ELSE DictSet(result, spice,
                          [quantity |-> Get(v.stock, "quantity", 0),
                           unlimited |-> Get(v.stock, "unlimited", FALSE)])
       IN collect_variants(Tail(variants), next)

parse_variants(pg) ==
  IF pg.context = "none" THEN EmptyDict
  ELSE collect_variants(pg.variants, EmptyDict)

NoHistory == [exists |-> FALSE, lines |-> <<>>]

Header ==
  <<"timestamp", "unix_ts", "product_slug", "product_name", "spice_level",
    "quantity", "unlimited", "sold_out">>

\* the row save_history writes at tick t
HistoryRow(product_slug, product_name, spice, stock_info, t) ==
  LET qty == Get(stock_info, "quantity", 0)
      unlimited == Get(stock_info, "unlimited", FALSE)
      sold_out == ~unlimited /\ qty = 0
  IN <<IsoFormat(t), IntStr(UnixTs(t)), product_slug, product_name, spice,
       IntStr(qty), PyStr(unlimited), PyStr(sold_out)>>

\* the same with the file opened "w": every call starts the file again
save_history_truncating(file, product_slug, product_name, spice, stock_info, t) ==
  [exists |-> TRUE,
   lines |-> <<Header,
               HistoryRow(product_slug, product_name, spice, stock_info, t)>>]

save_history(file, product_slug, product_name, spice, stock_info, t) ==
  LET file_exists == file.exists
      opened == IF file_exists THEN file.lines ELSE <<>>
      headed == IF ~file_exists THEN Append(opened, Header) ELSE opened
  IN [exists |-> TRUE,
      lines |-> Append(headed,
                  HistoryRow(product_slug, product_name, spice, stock_info, t))]

\* restock_monitor.notify_wechat: what it prints; it returns in every case
monitor_notify(delivery) ==
  CASE delivery = "no_key" -> [posted |-> FALSE, raised |-> FALSE, log |-> "[NOTIFY]"]
    [] delivery = "ok" -> [posted |-> TRUE, raised |-> FALSE, log |-> "[NOTIFIED]"]
    [] delivery = "body_failure" ->
         [posted |-> TRUE, raised |-> FALSE, log |-> "[NOTIFY FAILED]"]
    [] OTHER -> [posted |-> TRUE, raised |-> FALSE, log |-> "[NOTIFY ERROR]"]

\* the status text of one spice level
StatusText(stock) ==
  LET qty == Get(stock, "quantity", 0)
      unlimited == Get(stock, "unlimited", FALSE)
  IN IF unlimited THEN [kind |-> "unlimited", qty |-> 0]
     ELSE IF qty = 0 THEN [kind |-> "sold out", qty |-> 0]
     ELSE IF qty <= LOW_STOCK_THRESHOLD THEN [kind |-> "low", qty |-> qty]
     ELSE [kind |-> "ok", qty |-> qty]

\* one section of the report
ReportSection(product_info, variants) ==
  [name |-> product_info.name,
   url |-> product_info.url,
   levels |-> [j \in DOMAIN Spices |->
                 [spice |-> Spices[j],
                  status |-> StatusText(Get(variants, Spices[j], EmptyDict))]]]

\* the same loop over the products that were fetched only
build_daily_report_fetched(stock, t) ==
  [date |-> t,
   sections |-> [i \in {k \in DOMAIN PRODUCTS : PRODUCTS[k].slug \in DOMAIN stock} |->
                   ReportSection(PRODUCTS[i], stock[PRODUCTS[i].slug])]]

build_daily_report(stock, t) ==
  [date |-> t,
   sections |-> [i \in DOMAIN PRODUCTS |->
                   ReportSection(PRODUCTS[i],
                                 Get(stock, PRODUCTS[i].slug, EmptyDict))]]

\* a file an earlier run left: the rows of the first product, at tick 0
EarlierCalls ==
  [j \in DOMAIN Spices |->
     [slug |-> PRODUCTS[1].slug, name |-> PRODUCTS[1].name,
      spice |-> Spices[j], stock |-> EmptyDict, clock |-> 0]]

RECURSIVE ReplayCalls(_, _)
ReplayCalls(calls, file) ==
  IF calls = <<>> THEN file
  ELSE LET c == Head(calls)
       IN ReplayCalls(Tail(calls),
            save_history(file, c.slug, c.name, c.spice, c.stock, c.clock))

MonitorIdle ==
  /\ m_pc = "idle"
  /\ send_notify = FALSE
  /\ all_stock = EmptyDict
  /\ m_idx = 1
  /\ m_spice = 1
  /\ m_variants = EmptyDict
  /\ m_clock = 0
  /\ m_start = 0
  /\ m_status = [i \in DOMAIN PRODUCTS |-> "pending"]
  /\ m_notes = <<>>

\* the history file is absent, or an earlier run left it
MonitorStart ==
  /\ MonitorIdle
  /\ \/ m_written = <<>>
     \/ m_written = EarlierCalls
  /\ history = ReplayCalls(m_written, NoHistory)

HistoryStart ==
  /\ MonitorIdle
  /\ m_written = <<>>
  /\ history = NoHistory

not_mon == <<watch_vars, badge_vars, filter_vars>>

\* main, lines 171-178
MonStart ==
  /\ m_pc = "idle"
  /\ \E flag \in BOOLEAN : send_notify' = flag
  /\ all_stock' = EmptyDict
  /\ m_idx' = 1
  /\ m_start' = Len(history.lines)
  /\ m_pc' = "product"
  /\ UNCHANGED <<history, m_spice, m_variants, m_clock, m_written, m_status,
                 m_notes>>
  /\ UNCHANGED not_mon

\* the same with break in place of continue: the loop ends
MonFetchFail_break ==
  /\ m_pc = "product"
  /\ m_idx <= Len(PRODUCTS)
  /\ m_status' = [m_status EXCEPT ![m_idx] = "failed"]
  /\ m_idx' = Len(PRODUCTS) + 1
  /\ UNCHANGED <<history, m_pc, send_notify, all_stock, m_spice, m_variants,
                 m_clock, m_written, m_start, m_notes>>
  /\ UNCHANGED <<watch_vars, badge_vars, filter_vars>>

\* main, lines 186-191: fetch_html raises, the loop continues
MonFetchFail ==
  /\ m_pc = "product"
  /\ m_idx <= Len(PRODUCTS)
  /\ m_status' = [m_status EXCEPT ![m_idx] = "failed"]
  /\ m_idx' = m_idx + 1
  /\ UNCHANGED <<history, m_pc, send_notify, all_stock, m_spice, m_variants,
                 m_clock, m_written, m_start, m_notes>>
  /\ UNCHANGED not_mon

\* main, lines 186-193: the page is fetched; parse_variants raises (the
\* loop continues) or gives the variants
MonFetchOk ==
  /\ m_pc = "product"
  /\ m_idx <= Len(PRODUCTS)
  /\ \E pg \in MonitorPages :
       IF parse_raises(pg)
       THEN /\ m_status' = [m_status EXCEPT ![m_idx] = "failed"]
            /\ m_idx' = m_idx + 1
            /\ UNCHANGED <<m_pc, all_stock, m_variants, m_spice>>
       ELSE /\ m_variants' = parse_variants(pg)
            /\ all_stock' = DictSet(all_stock, PRODUCTS[m_idx].slug,
                                    parse_variants(pg))
            /\ m_spice' = 1
            /\ m_pc' = "rows"
            /\ UNCHANGED <<m_status, m_idx>>
  /\ UNCHANGED <<history, send_notify, m_clock, m_written, m_start, m_notes>>
  /\ UNCHANGED not_mon

\* main, lines 195-210: one turn of the loop over the spice levels
MonSaveRow ==
  /\ m_pc = "rows"
  /\ LET spice == Spices[m_spice]
         stock == Get(m_variants, spice, EmptyDict)
         product_info == PRODUCTS[m_idx]
     IN /\ history' = save_history(history, product_info.slug,
                                   product_info.name, spice, stock, m_clock)
        /\ m_written' = Append(m_written,
                          [slug |-> product_info.slug,
                           name |-> product_info.name,
                           spice |-> spice, stock |-> stock,
                           clock |-> m_clock])
  /\ IF m_spice = Len(Spices)
     THEN /\ m_pc' = "product"
          /\ m_idx' = m_idx + 1
          /\ m_status' = [m_status EXCEPT ![m_idx] = "ok"]
          /\ UNCHANGED m_spice
     ELSE /\ m_spice' = m_spice + 1
          /\ UNCHANGED <<m_pc, m_idx, m_status>>
  /\ UNCHANGED <<send_notify, all_stock, m_variants, m_clock, m_start, m_notes>>
  /\ UNCHANGED not_mon

\* main, lines 215-219: the daily report, in --notify mode only
MonFinish ==
  /\ m_pc = "product"
  /\ m_idx > Len(PRODUCTS)
  /\ IF send_notify
     THEN \E delivery \in Deliveries :
            m_notes' = Append(m_notes,
                         [report |-> build_daily_report(all_stock, m_clock),
                          outcome |-> monitor_notify(delivery),
                          processed |-> m_idx - 1])
     ELSE UNCHANGED m_notes
  /\ m_pc' = "done"
  /\ UNCHANGED <<history, send_notify, all_stock, m_idx, m_spice, m_variants,
                 m_clock, m_written, m_start, m_status>>
  /\ UNCHANGED not_mon

\* time passes
MonTick ==
  /\ m_clock < MaxMonClock
  /\ m_clock' = m_clock + 1
  /\ UNCHANGED <<history, m_pc, send_notify, all_stock, m_idx, m_spice,
                 m_variants, m_written, m_start, m_status, m_notes>>
  /\ UNCHANGED not_mon

\* the stock dicts save_history is called with
HistoryStocks == {EmptyDict, [quantity |-> 3, unlimited |-> FALSE]}

\* one save_history call, from any caller
HistoryCall ==
  /\ Len(m_written) < MaxCalls
  /\ \E i \in DOMAIN PRODUCTS, j \in DOMAIN Spices, stock \in HistoryStocks :
       /\ history' = save_history(history, PRODUCTS[i].slug, PRODUCTS[i].name,
                                  Spices[j], stock, m_clock)
       /\ m_written' = Append(m_written,
                         [slug |-> PRODUCTS[i].slug, name |-> PRODUCTS[i].name,
                          spice |-> Spices[j], stock |-> stock,
                          clock |-> m_clock])
  /\ UNCHANGED <<m_pc, send_notify, all_stock, m_idx, m_spice, m_variants,
                 m_clock, m_start, m_status, m_notes>>
  /\ UNCHANGED not_mon

\* ------------------------------------------------------------------------
\* plot_stock_history.py
\* ------------------------------------------------------------------------
Max(a, b) == IF a >= b THEN a ELSE b

\* the rows of a history file, as read_csv gives them: the DataFrame index,
\* the timestamp and, in files that have the column, unix_ts
TableRow(i, t, has_unix_ts) ==
  IF has_unix_ts
  THEN [index |-> i, timestamp |-> t, unix_ts |-> UnixTs(t)]
  ELSE [index |-> i, timestamp |-> t]

Tables ==
  { [has_unix_ts |-> h,
     rows |-> [i \in DOMAIN ts |-> TableRow(i, ts[i], h)]] :
      h \in BOOLEAN, ts \in SeqsUpTo(0..MaxMonClock, MaxRows) }

\* line 55: key = "unix_ts" if "unix_ts" in df.columns else "timestamp"
KeyOf(table, row) == IF table.has_unix_ts THEN row.unix_ts ELSE row.timestamp

\* drop_duplicates: the first occurrence of each value, in order
RECURSIVE drop_duplicates(_)
drop_duplicates(col) ==
  IF col = <<>> THEN <<>>
  ELSE LET init == drop_duplicates(SubSeq(col, 1, Len(col) - 1))
           last == col[Len(col)]
       IN IF \E i \in DOMAIN init : init[i] = last THEN init
          ELSE Append(init, last)

\* sort_values: ascending
RECURSIVE insert_sorted(_, _)
insert_sorted(sorted, x) ==
  IF sorted = <<>> THEN <<x>>
  ELSE IF x <= Head(sorted) THEN <<x>> \o sorted
  ELSE <<Head(sorted)>> \o insert_sorted(Tail(sorted), x)

RECURSIVE sort_values(_)
sort_values(col) ==
  IF col = <<>> THEN <<>>
  ELSE insert_sorted(sort_values(Tail(col)), Head(col))

\* a slice [-n:], which is the whole column when n = 0
tail_slice(col, n) ==
  SubSeq(col, IF n = 0 THEN 1 ELSE Max(1, Len(col) - n + 1), Len(col))

\* tail(n): the last n values, none when n = 0
tail(col, n) ==
  IF n = 0 THEN <<>>
  ELSE SubSeq(col, Max(1, Len(col) - n + 1), Len(col))

filter_last_runs(table, runs) ==
  IF table.rows = <<>> THEN table.rows
  ELSE LET col == [i \in DOMAIN table.rows |-> KeyOf(table, table.rows[i])]
           recent_keys == tail(sort_values(drop_duplicates(col)), runs)
           isin(row) == \E i \in DOMAIN recent_keys :
                          recent_keys[i] = KeyOf(table, row)
       IN SelectSeq(table.rows, isin)

FilterIdle ==
  /\ df = [has_unix_ts |-> TRUE, rows |-> <<>>]
  /\ f_runs = 0
  /\ f_result = <<>>
  /\ f_done = FALSE

\* main, line 174: df = filter_last_runs(df, runs=...)
FilterApply ==
  /\ ~f_done
  /\ f_result' = filter_last_runs(df, f_runs)
  /\ f_done' = TRUE
  /\ UNCHANGED <<df, f_runs>>
  /\ UNCHANGED <<watch_vars, badge_vars, mon_vars>>

\* ------------------------------------------------------------------------
\* Specifications
\* ------------------------------------------------------------------------
InitWatch == WatchStart /\ BadgeIdle /\ HistoryStart /\ FilterIdle

NextWatch ==
  \/ WatchLoadPrev
  \/ WatchFetchOk
  \/ WatchFetchFail
  \/ WatchFirstRun
  \/ WatchDetect
  \/ WatchSave
  \/ WatchTick

SpecWatch == InitWatch /\ [][NextWatch]_vars

InitBadge ==
  /\ WatchStart /\ HistoryStart /\ FilterIdle
  /\ page \in Pages
  /\ b_result = FALSE
  /\ b_done = FALSE

NextBadge == BadgeScan

SpecBadge == InitBadge /\ [][NextBadge]_vars

InitMonitor == WatchStart /\ BadgeIdle /\ MonitorStart /\ FilterIdle

NextMonitor ==
  \/ MonStart
  \/ MonFetchFail
  \/ MonFetchOk
  \/ MonSaveRow
  \/ MonFinish
  \/ MonTick

SpecMonitor == InitMonitor /\ [][NextMonitor]_vars

InitHistory == WatchStart /\ BadgeIdle /\ HistoryStart /\ FilterIdle

NextHistory ==
  \/ HistoryCall
  \/ MonTick

SpecHistory == InitHistory /\ [][NextHistory]_vars

InitFilter ==
  /\ WatchStart /\ BadgeIdle /\ HistoryStart
  /\ df \in Tables
  /\ f_runs \in 0..MaxN
  /\ f_result = <<>>
  /\ f_done = FALSE

NextFilter == FilterApply

SpecFilter == InitFilter /\ [][NextFilter]_vars

\* ------------------------------------------------------------------------
\* Claims
\* ------------------------------------------------------------------------
Range(q) == {q[i] : i \in DOMAIN q}

\* the run of the watcher is past its transition tests
WatchDecided == w_pc = "save" \/ w_exit \in {"ok", "notify_error"}

\* the run observed a flag that differs from the recorded one
WatchChange == w_prev # "null" /\ w_prev # JsonBool(w_now)

\* C1: a run of the watcher that obtained the page calls notify_wechat once
\* when the previous state is known and differs from the observed flag, and
\* not at all otherwise; the call carries the "now sold out" message for
\* false -> true and the "restocked" message for true -> false.
C1_OneCallPerTransition ==
  WatchDecided =>
    /\ Len(w_calls) = (IF WatchChange THEN 1 ELSE 0)
    /\ (w_prev = "false" /\ w_now) => w_calls = <<"now sold out">>
    /\ (w_prev = "true" /\ ~w_now) => w_calls = <<"restocked">>

C1_Witness ==
  /\ w_exit = "ok"
  /\ w_prev = "true"
  /\ w_now = FALSE
  /\ w_calls = <<"restocked">>

\* C2: over any sequence of runs every change of availability is notified
\* exactly once: a run that sees a change notifies it, a run that sees none
\* notifies nothing, and no change (an observed flag differing from one
\* recorded version of the state file) is notified in two different runs.
C2_EachChangeNotifiedOnce ==
  /\ WatchDecided => (w_calls # <<>> <=> WatchChange)
  /\ \A i, j \in DOMAIN w_log :
       i # j => w_log[i].version # w_log[j].version

\* C3: every run of the watcher that obtained the page ends with the state
\* file holding the flag observed in that run and a timestamp of that run.
C3_StateSavedAfterFetchedRun ==
  (w_pc = "idle" /\ w_fetched) =>
    /\ state_file.exists
    /\ state_file.sold_out = JsonBool(w_now)
    /\ state_file.ts <= w_clock

\* C4: a failed notification delivery never raises out of the notifier and
\* never ends a run with an error.
C4_DeliveryFailureNeverEndsRun == w_exit # "notify_error"

\* the rows the current run of the logger appended
RunRows ==
  SubSeq(history.lines, Max(m_start, 1) + 1, Len(history.lines))

\* C5: all rows appended during one run of the logger carry the same
\* timestamp and the same unix_ts.
C5_OneTimestampPerRun ==
  m_pc # "idle" =>
    \A i, j \in DOMAIN RunRows :
      /\ RunRows[i][1] = RunRows[j][1]
      /\ RunRows[i][2] = RunRows[j][2]

\* C6: after any sequence of save_history calls from an absent file, the
\* file is the header row, once and first, followed by one row per call in
\* call order, with the fields of the call; the file is absent before the
\* first call.
C6_HeaderOnceRowsInOrder ==
  /\ history.exists <=> m_written # <<>>
  /\ history.exists =>
       /\ Len(history.lines) = Len(m_written) + 1
       /\ history.lines[1] = Header
       /\ \A i \in DOMAIN m_written :
            LET c == m_written[i]
                row == history.lines[i + 1]
                present == c.stock # EmptyDict
            IN /\ row # Header
               /\ row[1] = IsoFormat(c.clock)
               /\ row[2] = IntStr(c.clock \div TicksPerSec)
               /\ row[3] = c.slug
               /\ row[4] = c.name
               /\ row[5] = c.spice
               /\ row[6] = (IF present THEN IntStr(c.stock.quantity) ELSE "0")
               /\ row[7] = (IF present THEN PyStr(c.stock.unlimited) ELSE "False")
               /\ row[8] = (IF present /\ (c.stock.unlimited \/ c.stock.quantity # 0)
                            THEN "False" ELSE "True")

C6_Witness ==
  /\ Len(m_written) >= 3
  /\ Len(history.lines) = Len(m_written) + 1
  /\ m_written[1].clock # m_written[3].clock
  /\ m_written[2].stock = EmptyDict

\* the spice levels of the rows the current run appended for a product
RunSpices(slug) ==
  LET mine == SelectSeq(RunRows, LAMBDA row : row[3] = slug)
  IN [i \in DOMAIN mine |-> mine[i][5]]

\* C7: when a run of the logger ends, every product whose page was fetched
\* and parsed has exactly three rows of this run, for mild, medium and spicy
\* in that order, a missing variant being written as quantity 0, not
\* unlimited, sold out; a product whose fetch failed has no row, and no
\* product is left unprocessed.
C7_ThreeRowsPerFetchedProduct ==
  m_pc = "done" =>
    \A i \in DOMAIN PRODUCTS :
      LET slug == PRODUCTS[i].slug
      IN /\ m_status[i] \in {"ok", "failed"}
         /\ m_status[i] = "ok" => RunSpices(slug) = Spices
         /\ m_status[i] = "failed" => RunSpices(slug) = <<>>
         /\ \A r \in DOMAIN RunRows :
              (RunRows[r][3] = slug /\ RunRows[r][5] \notin DOMAIN all_stock[slug])
                => /\ RunRows[r][6] = "0"
                   /\ RunRows[r][7] = "False"
                   /\ RunRows[r][8] = "True"

C7_Witness ==
  /\ m_pc = "done"
  /\ m_status[1] = "failed"
  /\ m_status[2] = "ok"
  /\ "medium" \notin DOMAIN all_stock[PRODUCTS[2].slug]
  /\ Len(RunRows) = 3

\* the batch keys of the table
BatchKeys == {KeyOf(df, df.rows[i]) : i \in DOMAIN df.rows}

\* the rows of one batch
BatchSize(k) == Cardinality({i \in DOMAIN df.rows : KeyOf(df, df.rows[i]) = k})

\* the f_runs largest batch keys
LargestKeys ==
  {k \in BatchKeys : Cardinality({k2 \in BatchKeys : k2 > k}) < f_runs}

Min(a, b) == IF a <= b THEN a ELSE b

\* C8: filter_last_runs(df, N), N >= 0, returns exactly the rows of the N
\* largest batch keys, unchanged and in their original order: N*k rows for
\* a table of M > N batches of k rows each, and all rows when M <= N.
C8_LastRunsWindow ==
  f_done =>
    /\ f_result = SelectSeq(df.rows, LAMBDA row : KeyOf(df, row) \in LargestKeys)
    /\ Cardinality(BatchKeys) <= f_runs => f_result = df.rows
    /\ \A k \in 1..MaxRows :
         (\A b \in BatchKeys : BatchSize(b) = k)
           => Len(f_result) = Min(f_runs, Cardinality(BatchKeys)) * k

C8_Witness ==
  /\ f_done
  /\ df.has_unix_ts
  /\ Cardinality(BatchKeys) = 2
  /\ \A b \in BatchKeys : BatchSize(b) = 2
  /\ f_runs = 1
  /\ Len(f_result) = 2
  /\ f_result[1].index = 2

\* the element carries both classes
CarriesBothClasses(e) ==
  /\ "product-mark" \in Range(e.classes)
  /\ "sold-out" \in Range(e.classes)

\* C9 as stated: is_sold_out is true iff the page holds an element carrying
\* both the product-mark and the sold-out class, whatever its other classes
\* and attributes.
C9_AnyElementWithBothClasses ==
  b_done =>
    (b_result <=> \E i \in DOMAIN page.elems : CarriesBothClasses(page.elems[i]))

\* the start tag is one the expression matches: a span whose double-quoted
\* class value holds product-mark as a whole word and, after it, sold-out
BadgeMarker(e) ==
  /\ e.tag = "span"
  /\ e.quote = "dq"
  /\ \E i, j \in DOMAIN e.classes :
       /\ i < j
       /\ e.classes[i] \in {"product-mark", "my-product-mark"}
       /\ e.classes[j] = "sold-out"

\* C9 as amended: is_sold_out is true iff the page holds a span start tag
\* whose double-quoted class value holds product-mark as a whole word
\* followed, later in the same value, by sold-out as a whole word, in any
\* letter case; the weak signals and other elements change nothing.
C9_SpanMarkerInOrder ==
  b_done =>
    (b_result <=> \E i \in DOMAIN page.elems : BadgeMarker(page.elems[i]))

C9_Witness ==
  /\ b_done
  /\ b_result
  /\ page.signals = {"Add to Cart", "Purchase"}
  /\ page.lead
  /\ page.elems[1].upper
  /\ page.elems[1].id

\* C10: a run of the logger sends nothing before its last step and nothing
\* without --notify; with --notify it sends the report once, after every
\* product was processed, with one section per configured product, and the
\* section of a product whose fetch or parse failed, which has no row of
\* this run, shows every spice level as sold out, as quantity 0 does.
C10_ReportOnceAllProducts ==
  /\ m_pc # "done" => m_notes = <<>>
  /\ (m_pc = "done" /\ ~send_notify) => m_notes = <<>>
  /\ (m_pc = "done" /\ send_notify) =>
       /\ Len(m_notes) = 1
       /\ m_notes[1].processed = Len(PRODUCTS)
       /\ DOMAIN m_notes[1].report.sections = DOMAIN PRODUCTS
       /\ \A i \in DOMAIN PRODUCTS :
            LET section == m_notes[1].report.sections[i]
            IN /\ section.name = PRODUCTS[i].name
               /\ m_status[i] = "failed" =>
                    /\ RunSpices(PRODUCTS[i].slug) = <<>>
                    /\ \A j \in DOMAIN Spices :
                         /\ section.levels[j].status.kind = "sold out"
                         /\ section.levels[j].status =
                              StatusText([quantity |-> 0, unlimited |-> FALSE])

C10_Witness ==
  /\ m_pc = "done"
  /\ send_notify
  /\ m_status[1] = "ok"
  /\ m_status[2] = "failed"
  /\ Len(m_notes) = 1
  /\ m_notes[1].outcome.log = "[NOTIFY ERROR]"

====
